---- MODULE Spec2Model ----
(***************************************************************************)
(* Model of pseudoAPI.py: the override store kept in test_ids.json         *)
(* (load_test_ids / save_test_ids), the /test-ids handlers and the         *)
(* /top-users handler with its warehouse fallback.                         *)
(*                                                                         *)
(* The backing file is a sequence of characters.  json.load and json.dump  *)
(* are modelled as a parser and a serialiser over that text, for the JSON  *)
(* subset null / string without escapes / array / object.  A Python value  *)
(* is a record [t, s, keys, items]; a Python str is a sequence of          *)
(* one-character strings.                                                  *)
(***************************************************************************)
EXTENDS Integers, Sequences, FiniteSets, TLC

(* ------------------------------ bounds -------------------------------- *)
\* number of distinct pseudo-ids a request may carry
NumPids == 2
\* longest id list a backing file holds when the service starts
MaxInitLen == 3
\* number of requests issued in the interleaved specification
MaxReqs == 3

Letters == <<"A", "B", "C", "D">>
PIDS == { <<Letters[i]>> : i \in 1..NumPids }

(* --------------------------- Python values ---------------------------- *)
PyNone == [t |-> "none", s |-> <<>>, keys |-> <<>>, items |-> <<>>]
PyStr(s) == [t |-> "str", s |-> s, keys |-> <<>>, items |-> <<>>]
PyList(items) == [t |-> "list", s |-> <<>>, keys |-> <<>>, items |-> items]
PyDict(keys, items) == [t |-> "dict", s |-> <<>>, keys |-> keys, items |-> items]

IsList(v) == v.t = "list"
EmptyList == PyList(<<>>)

RECURSIVE SeqsUpTo(_, _)
SeqsUpTo(S, n) ==
  IF n = 0 THEN { <<>> }
  ELSE LET shorter == SeqsUpTo(S, n - 1)
       IN shorter \cup { Append(q, x) : q \in shorter, x \in S }

(* ------------------------------ json.load ----------------------------- *)
Q == "\""
IDS_KEY == <<"i", "d", "s">>
NULL_TEXT == <<"n", "u", "l", "l">>

Fail == [ok |-> FALSE, val |-> PyNone, pos |-> 0]
Ok(v, p) == [ok |-> TRUE, val |-> v, pos |-> p]

RECURSIVE SkipWs(_, _)
SkipWs(txt, i) ==
  IF i <= Len(txt) /\ txt[i] = " " THEN SkipWs(txt, i + 1) ELSE i

\* index of the first quote character at or after i, 0 when there is none
RECURSIVE FindQuote(_, _)
FindQuote(txt, i) ==
  IF i > Len(txt) THEN 0
  ELSE IF txt[i] = Q THEN i
  ELSE FindQuote(txt, i + 1)

\* txt[i] is the opening quote, j the position of the closing one (0: none)
StringUpTo(txt, i, j) ==
  IF j = 0 THEN Fail ELSE Ok(PyStr(SubSeq(txt, i + 1, j - 1)), j + 1)

ParseString(txt, i) == StringUpTo(txt, i, FindQuote(txt, i + 1))

\* position of key k in a dict's key list, 0 when absent
RECURSIVE KeyIndex(_, _, _)
KeyIndex(keys, k, n) ==
  IF n > Len(keys) THEN 0
  ELSE IF keys[n] = k THEN n
  ELSE KeyIndex(keys, k, n + 1)

\* dict assignment: a repeated key keeps its first position, last value wins
DictPutAt(d, k, v, n) ==
  IF n = 0 THEN PyDict(Append(d.keys, k), Append(d.items, v))
  ELSE PyDict(d.keys, [d.items EXCEPT ![n] = v])

DictPut(d, k, v) == DictPutAt(d, k, v, KeyIndex(d.keys, k, 1))

RECURSIVE ParseValue(_, _)
RECURSIVE ParseElems(_, _, _)
RECURSIVE ParseMembers(_, _, _)

\* k is the position after an element and the whitespace that follows it
ElemsNext(txt, k, acc) ==
  IF k > Len(txt) THEN Fail
  ELSE IF txt[k] = "]" THEN Ok(PyList(acc), k + 1)
  ELSE IF txt[k] = "," THEN ParseElems(txt, SkipWs(txt, k + 1), acc)
  ELSE Fail

\* r is the parse of the element just read
ElemsAfter(txt, r, acc) ==
  IF ~r.ok THEN Fail ELSE ElemsNext(txt, SkipWs(txt, r.pos), Append(acc, r.val))

\* i is the position of the next element; acc holds the elements read so far
ParseElems(txt, i, acc) == ElemsAfter(txt, ParseValue(txt, i), acc)

\* k is the position after a member and the whitespace that follows it
MembersNext(txt, k, d) ==
  IF k > Len(txt) THEN Fail
  ELSE IF txt[k] = "}" THEN Ok(d, k + 1)
  ELSE IF txt[k] = "," THEN ParseMembers(txt, SkipWs(txt, k + 1), d)
  ELSE Fail

\* r is the parse of the member's value
MembersAfterValue(txt, key, r, d) ==
  IF ~r.ok THEN Fail
  ELSE MembersNext(txt, SkipWs(txt, r.pos), DictPut(d, key, r.val))

\* c is the position where the colon must stand
MembersAfterKey(txt, key, c, d) ==
  IF c > Len(txt) \/ txt[c] # ":" THEN Fail
  ELSE MembersAfterValue(txt, key, ParseValue(txt, SkipWs(txt, c + 1)), d)

\* k is the parse of the member's key
MembersKey(txt, k, d) ==
  IF ~k.ok THEN Fail ELSE MembersAfterKey(txt, k.val.s, SkipWs(txt, k.pos), d)

\* i is the position of the next key; d holds the members read so far
ParseMembers(txt, i, d) ==
  IF i > Len(txt) \/ txt[i] # Q THEN Fail
  ELSE MembersKey(txt, ParseString(txt, i), d)

\* k is the position after "[" and the whitespace that follows it
ArrayFrom(txt, k) ==
  IF k <= Len(txt) /\ txt[k] = "]" THEN Ok(EmptyList, k + 1)
  ELSE ParseElems(txt, k, <<>>)

\* k is the position after "{" and the whitespace that follows it
ObjectFrom(txt, k) ==
  IF k <= Len(txt) /\ txt[k] = "}" THEN Ok(PyDict(<<>>, <<>>), k + 1)
  ELSE ParseMembers(txt, k, PyDict(<<>>, <<>>))

ParseValue(txt, i) ==
  IF i > Len(txt) THEN Fail
  ELSE IF txt[i] = "n"
    THEN IF i + 3 <= Len(txt) /\ SubSeq(txt, i, i + 3) = NULL_TEXT
         THEN Ok(PyNone, i + 4) ELSE Fail
  ELSE IF txt[i] = Q THEN ParseString(txt, i)
  ELSE IF txt[i] = "[" THEN ArrayFrom(txt, SkipWs(txt, i + 1))
  ELSE IF txt[i] = "{" THEN ObjectFrom(txt, SkipWs(txt, i + 1))
  ELSE Fail

\* the value is complete only when nothing but whitespace follows it
WholeValue(txt, r) ==
  IF r.ok /\ SkipWs(txt, r.pos) = Len(txt) + 1 THEN r ELSE Fail

\* json.load(f): one value surrounded by optional whitespace
json_load(txt) == WholeValue(txt, ParseValue(txt, SkipWs(txt, 1)))

(* ------------------------------ json.dump ----------------------------- *)
Quoted(s) == <<Q>> \o s \o <<Q>>

RECURSIVE json_dumps(_)
RECURSIVE DumpItems(_, _)
RECURSIVE DumpMembers(_, _, _)

DumpItems(items, n) ==
  IF n > Len(items) THEN <<>>
  ELSE (IF n > 1 THEN <<",", " ">> ELSE <<>>)
       \o json_dumps(items[n]) \o DumpItems(items, n + 1)

DumpMembers(keys, items, n) ==
  IF n > Len(keys) THEN <<>>
  ELSE (IF n > 1 THEN <<",", " ">> ELSE <<>>)
       \o Quoted(keys[n]) \o <<":", " ">> \o json_dumps(items[n])
       \o DumpMembers(keys, items, n + 1)

json_dumps(v) ==
  IF v.t = "none" THEN NULL_TEXT
  ELSE IF v.t = "str" THEN Quoted(v.s)
  ELSE IF v.t = "list" THEN <<"[">> \o DumpItems(v.items, 1) \o <<"]">>
  ELSE <<"{">> \o DumpMembers(v.keys, v.items, 1) \o <<"}">>

(* --------------------------- override store --------------------------- *)
\* the backing file test_ids.json: absent, or present with some text
MissingFile == [exists |-> FALSE, text |-> <<>>]
FileOf(text) == [exists |-> TRUE, text |-> text]

\* d.get("ids", []) for a dict d; n is the position of "ids" among its keys
DictGetIds(d, n) == IF n = 0 THEN EmptyList ELSE d.items[n]

\* variant: the key is misspelt, .get("id", [])
GetIdsOrEmpty_WrongKey(r) ==
  IF ~r.ok THEN EmptyList
  ELSE IF r.val.t # "dict" THEN EmptyList
  ELSE DictGetIds(r.val, KeyIndex(r.val.keys, <<"i", "d">>, 1))

\* .get("ids", []) on what json.load returned, under the bare except: a
\* parse error, or a value without .get, ends in `return []`
GetIdsOrEmpty(r) ==
  IF ~r.ok THEN EmptyList
  ELSE IF r.val.t # "dict" THEN EmptyList
  ELSE DictGetIds(r.val, KeyIndex(r.val.keys, IDS_KEY, 1))

load_test_ids(f) ==
  IF ~f.exists THEN EmptyList ELSE GetIdsOrEmpty(json_load(f.text))

\* variant: the document is written under the key "id"
save_test_ids_WrongKey(ids) == FileOf(json_dumps(PyDict(<<<<"i", "d">>>>, <<ids>>)))

\* json.dump({"ids": ids}, f) into the file opened with "w"
save_test_ids(ids) == FileOf(json_dumps(PyDict(<<IDS_KEY>>, <<ids>>)))

(* -------------------------- Python operators -------------------------- *)
IsSubstring(p, s) ==
  \E i \in 1..(Len(s) - Len(p) + 1) : SubSeq(s, i, i + Len(p) - 1) = p

\* `pid in ids` for a str pid; defined for every container type
PyIn(pid, ids) ==
  IF ids.t = "list" THEN \E n \in 1..Len(ids.items) : ids.items[n] = PyStr(pid)
  ELSE IF ids.t = "str" THEN Len(pid) = 0 \/ IsSubstring(pid, ids.s)
  ELSE \E n \in 1..Len(ids.keys) : ids.keys[n] = pid

\* bool(v)
PyTruthy(v) ==
  IF v.t = "none" THEN FALSE
  ELSE IF v.t = "str" THEN Len(v.s) > 0
  ELSE IF v.t = "list" THEN Len(v.items) > 0
  ELSE Len(v.keys) > 0

\* the values `for pid in v` yields (v is not None)
PyIter(v) ==
  IF v.t = "list" THEN v.items
  ELSE IF v.t = "str" THEN [n \in 1..Len(v.s) |-> PyStr(<<v.s[n]>>)]
  ELSE [n \in 1..Len(v.keys) |-> PyStr(v.keys[n])]

\* position of the first element equal to x, 0 when there is none
RECURSIVE IndexOf(_, _, _)
IndexOf(items, x, n) ==
  IF n > Len(items) THEN 0
  ELSE IF items[n] = x THEN n
  ELSE IndexOf(items, x, n + 1)

WithoutIndex(items, n) ==
  SubSeq(items, 1, n - 1) \o SubSeq(items, n + 1, Len(items))

\* variant: every element equal to x is dropped
ListRemove_All(items, x) == SelectSeq(items, LAMBDA e : e # x)

\* list.remove(x), x present: drops the first element equal to x
ListRemove(items, x) == WithoutIndex(items, IndexOf(items, x, 1))

(* ------------------------------ responses ----------------------------- *)
\* keys: the keys of the JSON payload; exc: the exception that escaped the
\* handler (the framework then answers 500 without a payload)
Resp(code, keys, status, ids, count, data, message, exc) ==
  [code |-> code, keys |-> keys, status |-> status, ids |-> ids,
   count |-> count, data |-> data, message |-> message, exc |-> exc]

NoResp == Resp(0, {}, "", PyNone, 0, <<>>, "", "")
Unhandled(exc) == Resp(500, {}, "", PyNone, 0, <<>>, "", exc)
IdsResp(status, ids) ==
  Resp(200, IF status = "" THEN {"ids"} ELSE {"status", "ids"},
       status, ids, 0, <<>>, "", "")
SuccessResp(data) ==
  Resp(200, {"status", "count", "data"}, "success", PyNone, Len(data), data, "", "")

USER_KEY == <<"u", "s", "e", "r", "_", "p", "s", "e", "u", "d", "o", "_", "i", "d">>
Wrap(v) == PyDict(<<USER_KEY>>, <<v>>)
WrapAll(vs) == [n \in 1..Len(vs) |-> Wrap(vs[n])]

(* ------------------------------ handlers ------------------------------ *)
\* variant: no membership test, the id is always appended
add_update_NoCheck(ids, pid) ==
  IF ids.t = "list"
  THEN [err |-> "", ids |-> PyList(Append(ids.items, PyStr(pid))), save |-> TRUE]
  ELSE [err |-> "AttributeError", ids |-> ids, save |-> FALSE]

\* variant: a new id is put in front of the list
add_update_Prepends(ids, pid) ==
  IF ids.t = "none" THEN [err |-> "TypeError", ids |-> ids, save |-> FALSE]
  ELSE IF ~PyIn(pid, ids)
    THEN IF ids.t = "list"
         THEN [err |-> "", ids |-> PyList(<<PyStr(pid)>> \o ids.items), save |-> TRUE]
         ELSE [err |-> "AttributeError", ids |-> ids, save |-> FALSE]
  ELSE [err |-> "", ids |-> ids, save |-> FALSE]

\* variant: the id is compared with the last entry only
add_update_ChecksLastOnly(ids, pid) ==
  IF ids.t # "list" THEN [err |-> "TypeError", ids |-> ids, save |-> FALSE]
  ELSE IF Len(ids.items) > 0 /\ ids.items[Len(ids.items)] = PyStr(pid)
    THEN [err |-> "", ids |-> ids, save |-> FALSE]
  ELSE [err |-> "", ids |-> PyList(Append(ids.items, PyStr(pid))), save |-> TRUE]

\* lines 144-146: the update add_test_id computes from the loaded value
add_update(ids, pid) ==
  IF ids.t = "none" THEN [err |-> "TypeError", ids |-> ids, save |-> FALSE]
  ELSE IF ~PyIn(pid, ids)
    THEN IF ids.t = "list"
         THEN [err |-> "", ids |-> PyList(Append(ids.items, PyStr(pid))), save |-> TRUE]
         ELSE [err |-> "AttributeError", ids |-> ids, save |-> FALSE]
  ELSE [err |-> "", ids |-> ids, save |-> FALSE]

\* lines 152-154: the update delete_test_id computes from the loaded value
delete_update(ids, pid) ==
  IF ids.t = "none" THEN [err |-> "TypeError", ids |-> ids, save |-> FALSE]
  ELSE IF PyIn(pid, ids)
    THEN IF ids.t = "list"
         THEN [err |-> "", ids |-> PyList(ListRemove(ids.items, PyStr(pid))), save |-> TRUE]
         ELSE [err |-> "AttributeError", ids |-> ids, save |-> FALSE]
  ELSE [err |-> "", ids |-> ids, save |-> TRUE]

get_test_ids(f) == [file |-> f, resp |-> IdsResp("", load_test_ids(f))]

\* the rest of a /test-ids handler once its update u is computed: an
\* exception escapes, or the list is saved (when u.save) and returned
Finish(f, u, status) ==
  IF u.err # "" THEN [file |-> f, resp |-> Unhandled(u.err)]
  ELSE [file |-> IF u.save THEN save_test_ids(u.ids) ELSE f,
        resp |-> IdsResp(status, u.ids)]

add_test_id(f, pid) == Finish(f, add_update(load_test_ids(f), pid), "added")

delete_test_id(f, pid) == Finish(f, delete_update(load_test_ids(f), pid), "deleted")

\* the two literals of TEST_PSEUDO_IDS in get_top_users
TEST_PSEUDO_IDS ==
  << PyStr(<<"1", "9", "4", "9", "6", "7", "5", "1", "6", "2", ".", "1", "7", "3", "1", "3", "9", "3", "1", "0", "3">>),
     PyStr(<<"8", "0", "7", "7", "9", "7", "3", "7", "4", ".", "1", "7", "2", "9", "1", "8", "5", "9", "9", "2">>) >>

NO_DATA_MESSAGE == "No data found for the given date range."

\* variant: the warehouse is asked first, the override list is the fallback
TopUsersFor_WarehouseFirst(ids, wh) ==
  IF ~wh.raises /\ Len(wh.rows) > 0
  THEN [resp |-> SuccessResp(WrapAll(wh.rows)), queried |-> TRUE]
  ELSE IF PyTruthy(ids)
    THEN [resp |-> SuccessResp(WrapAll(PyIter(ids))), queried |-> TRUE]
  ELSE IF wh.raises
    THEN [resp |-> Resp(500, {"status", "message"}, "error", PyNone, 0,
                        <<>>, wh.msg, ""),
          queried |-> TRUE]
  ELSE [resp |-> Resp(404, {"message"}, "", PyNone, 0, <<>>, NO_DATA_MESSAGE, ""),
        queried |-> TRUE]

\* variant: no df.empty test, an empty result is an empty success
TopUsersFor_NoEmptyCheck(ids, wh) ==
  IF PyTruthy(ids)
  THEN [resp |-> SuccessResp(WrapAll(PyIter(ids))), queried |-> FALSE]
  ELSE IF wh.raises
    THEN [resp |-> Resp(500, {"status", "message"}, "error", PyNone, 0,
                        <<>>, wh.msg, ""),
          queried |-> TRUE]
  ELSE [resp |-> SuccessResp(WrapAll(wh.rows)), queried |-> TRUE]

\* variant: an exception of the warehouse client is reported as "no data"
TopUsersFor_ErrorAsNoData(ids, wh) ==
  IF PyTruthy(ids)
  THEN [resp |-> SuccessResp(WrapAll(PyIter(ids))), queried |-> FALSE]
  ELSE IF wh.raises \/ Len(wh.rows) = 0
    THEN [resp |-> Resp(404, {"message"}, "", PyNone, 0, <<>>, NO_DATA_MESSAGE, ""),
          queried |-> TRUE]
  ELSE [resp |-> SuccessResp(WrapAll(wh.rows)), queried |-> TRUE]

\* lines 179-204, ids being what load_test_ids() returned.
\* wh is what client.query(QUERY).to_dataframe() does when it is called:
\* it raises with message wh.msg, or yields the rows wh.rows
TopUsersFor(ids, wh) ==
  IF PyTruthy(ids)
  THEN [resp |-> SuccessResp(WrapAll(PyIter(ids))), queried |-> FALSE]
  ELSE IF wh.raises
    THEN [resp |-> Resp(500, {"status", "message"}, "error", PyNone, 0,
                        <<>>, wh.msg, ""),
          queried |-> TRUE]
  ELSE IF Len(wh.rows) = 0
    THEN [resp |-> Resp(404, {"message"}, "", PyNone, 0, <<>>,
                        NO_DATA_MESSAGE, ""),
          queried |-> TRUE]
  ELSE [resp |-> SuccessResp(WrapAll(wh.rows)), queried |-> TRUE]

get_top_users(m, f, wh) ==
  IF m = "testing"
  THEN [resp |-> SuccessResp(WrapAll(TEST_PSEUDO_IDS)), queried |-> FALSE]
  ELSE TopUsersFor(load_test_ids(f), wh)

(* --------------------------- bounded inputs --------------------------- *)
A == <<"A">>
B == <<"B">>
X_KEY == <<"x">>

IdLists == { [n \in 1..Len(q) |-> PyStr(q[n])] : q \in SeqsUpTo(PIDS, MaxInitLen) }

\* the text save_test_ids writes for a list of ids
CanonText(items) == json_dumps(PyDict(<<IDS_KEY>>, <<PyList(items)>>))

\* the same document without any whitespace, as another writer may lay it out
RECURSIVE CompactItems(_, _)
CompactItems(items, n) ==
  IF n > Len(items) THEN <<>>
  ELSE (IF n > 1 THEN <<",">> ELSE <<>>)
       \o Quoted(items[n].s) \o CompactItems(items, n + 1)
CompactText(items) ==
  <<"{">> \o Quoted(IDS_KEY) \o <<":", "[">> \o CompactItems(items, 1) \o <<"]", "}">>

\* the same document with a space around every token
RECURSIVE SpacedItems(_, _)
SpacedItems(items, n) ==
  IF n > Len(items) THEN <<>>
  ELSE (IF n > 1 THEN <<",", " ">> ELSE <<>>)
       \o Quoted(items[n].s) \o <<" ">> \o SpacedItems(items, n + 1)
SpacedText(items) ==
  <<"{", " ">> \o Quoted(IDS_KEY) \o <<" ", ":", " ", "[", " ">>
    \o SpacedItems(items, 1) \o <<"]", " ", "}">>

\* documents that are not a plain id list: unreadable, not an object, without
\* "ids", with a non-list "ids", with other keys, with non-string entries
OddTexts ==
  { <<>>,
    <<"{">>,
    <<"[">> \o Quoted(A) \o <<"]">>,
    NULL_TEXT,
    <<"{", "}">>,
    json_dumps(PyDict(<<X_KEY>>, <<PyNone>>)),
    json_dumps(PyDict(<<IDS_KEY>>, <<PyNone>>)),
    json_dumps(PyDict(<<IDS_KEY>>, <<PyStr(A)>>)),
    json_dumps(PyDict(<<IDS_KEY>>, <<PyStr(<<>>)>>)),
    json_dumps(PyDict(<<IDS_KEY>>, <<PyDict(<<>>, <<>>)>>)),
    json_dumps(PyDict(<<IDS_KEY>>, <<PyDict(<<A>>, <<PyNone>>)>>)),
    json_dumps(PyDict(<<IDS_KEY, X_KEY>>, <<PyList(<<PyStr(A)>>), PyNone>>)),
    json_dumps(PyDict(<<IDS_KEY>>, <<PyList(<<PyNone, PyStr(A)>>)>>)),
    <<"{">> \o Quoted(IDS_KEY) \o <<":", " ", "[">> \o Quoted(A) \o <<"]", ",", " ">>
      \o Quoted(IDS_KEY) \o <<":", " ", "[">> \o Quoted(B) \o <<"]", "}">>,
    <<" ">> \o CanonText(<<PyStr(B)>>) \o <<" ">> }

InitFiles ==
  {MissingFile}
    \cup { FileOf(CanonText(l)) : l \in IdLists }
    \cup { FileOf(CompactText(l)) : l \in IdLists }
    \cup { FileOf(SpacedText(l)) : l \in IdLists }
    \cup { FileOf(t) : t \in OddTexts }

WAREHOUSE_ERRORS == {"403 Access Denied", "Timeout"}
WarehouseOutcomes ==
  { [raises |-> TRUE, rows |-> <<>>, msg |-> m] : m \in WAREHOUSE_ERRORS }
    \cup { [raises |-> FALSE, rows |-> [n \in 1..Len(q) |-> PyStr(q[n])], msg |-> ""] :
             q \in SeqsUpTo(PIDS, 1) }
NoWarehouse == [raises |-> FALSE, rows |-> <<>>, msg |-> ""]

(* -------------------------------- state ------------------------------- *)
Workers == {1, 2}

VARIABLES
  mode,   \* MODE, read from the environment when the module is imported
  file,   \* test_ids.json
  last,   \* the last request served: operation, argument, file before, response
  w,      \* per worker thread: position in its handler, its local `ids`, its
          \* response, and whether the request wrote the file
  nreq,   \* requests started by the worker threads
  base,   \* the file when the current group of overlapping requests began
  cnt     \* requests each worker started in the current group

vars == <<mode, file, last, w, nreq, base, cnt>>

Served(op, pid, pre, wh, resp, queried) ==
  [op |-> op, pid |-> pid, pre |-> pre, wh |-> wh, resp |-> resp, queried |-> queried]
NothingServed == Served("none", <<>>, MissingFile, NoWarehouse, NoResp, FALSE)

IdleWorker ==
  [pc |-> "idle", op |-> "none", pid |-> <<>>, ids |-> EmptyList, resp |-> NoResp,
   wrote |-> FALSE]

InitWorkers ==
  /\ w = [p \in Workers |-> IdleWorker]
  /\ nreq = 0
  /\ base = MissingFile
  /\ cnt = [p \in Workers |-> 0]

(* --------------- requests served one at a time (Spec) ----------------- *)
Init ==
  /\ mode \in {"testing", "production"}
  /\ file \in InitFiles
  /\ last = NothingServed
  /\ InitWorkers

\* a /test-ids request is served: r is the handler's result
Serve(op, pid, r) ==
  /\ file' = r.file
  /\ last' = Served(op, pid, file, NoWarehouse, r.resp, FALSE)

\* GET /test-ids
GetTestIds ==
  /\ mode = "production"
  /\ Serve("get", <<>>, get_test_ids(file))
  /\ UNCHANGED <<mode, w, nreq, base, cnt>>

\* POST /test-ids?pid=...
AddTestId ==
  /\ mode = "production"
  /\ \E pid \in PIDS : Serve("add", pid, add_test_id(file, pid))
  /\ UNCHANGED <<mode, w, nreq, base, cnt>>

\* DELETE /test-ids/{pid}
DeleteTestId ==
  /\ mode = "production"
  /\ \E pid \in PIDS : Serve("delete", pid, delete_test_id(file, pid))
  /\ UNCHANGED <<mode, w, nreq, base, cnt>>

ServeTop(wh, r) == last' = Served("top", <<>>, file, wh, r.resp, r.queried)

\* GET /top-users
GetTopUsers ==
  /\ \E wh \in WarehouseOutcomes : ServeTop(wh, get_top_users(mode, file, wh))
  /\ UNCHANGED <<mode, file, w, nreq, base, cnt>>

Next == GetTestIds \/ AddTestId \/ DeleteTestId \/ GetTopUsers

Spec == Init /\ [][Next]_vars

(* ------------------ save(load()) on its own (SpecRT) ------------------ *)
InitRT ==
  /\ mode = "production"
  /\ file \in InitFiles
  /\ last = NothingServed
  /\ InitWorkers

SaveLoad ==
  /\ file' = save_test_ids(load_test_ids(file))
  /\ last' = Served("saveload", <<>>, file, NoWarehouse, NoResp, FALSE)
  /\ UNCHANGED <<mode, w, nreq, base, cnt>>

NextRT == SaveLoad

SpecRT == InitRT /\ [][NextRT]_vars

(* ------- add / delete running on two worker threads (SpecConc) -------- *)
\* what a write of text c at offset 0 leaves in a file that holds old
WriteAtStart(old, c) == c \o SubSeq(old, Len(c) + 1, Len(old))

IsPlainList(l) ==
  /\ IsList(l)
  /\ \A n \in 1..Len(l.items) : l.items[n].t = "str"

HasPlainList(f) == IsPlainList(load_test_ids(f))

NoDuplicates(items) ==
  \A i, j \in 1..Len(items) : items[i] = items[j] => i = j

StartsWithoutDuplicates(f) == HasPlainList(f) /\ NoDuplicates(load_test_ids(f).items)

InitConc ==
  /\ mode = "production"
  /\ file \in { f \in InitFiles : StartsWithoutDuplicates(f) }
  /\ last = NothingServed
  /\ InitWorkers

\* the worker's state once its update u is computed: it goes on to save, or
\* the handler is over (an exception escaped, or add found the id present)
Entered(op, pid, u) ==
  [pc |-> IF u.err = "" /\ u.save THEN "saving" ELSE "idle",
   op |-> op, pid |-> pid, ids |-> u.ids, wrote |-> FALSE,
   resp |-> IF u.err # "" THEN Unhandled(u.err)
            ELSE IF u.save THEN NoResp
            ELSE IdsResp(IF op = "add" THEN "added" ELSE "deleted", u.ids)]

HandlerUpdate(op, ids, pid) ==
  IF op = "add" THEN add_update(ids, pid) ELSE delete_update(ids, pid)

\* the handler is entered: load_test_ids() and the update of the local list
Request(p) ==
  /\ w[p].pc = "idle"
  /\ nreq < MaxReqs
  /\ \E op \in {"add", "delete"}, pid \in PIDS :
       w' = [w EXCEPT ![p] = Entered(op, pid, HandlerUpdate(op, load_test_ids(file), pid))]
  /\ nreq' = nreq + 1
  /\ IF \A q \in Workers : w[q].pc = "idle"
     THEN /\ base' = file
          /\ cnt' = [q \in Workers |-> IF q = p THEN 1 ELSE 0]
     ELSE /\ base' = base
          /\ cnt' = [cnt EXCEPT ![p] = @ + 1]
  /\ UNCHANGED <<mode, file, last>>

\* save_test_ids: open(TEST_IDS_FILE, "w") creates or truncates the file
OpenForWrite(p) ==
  /\ w[p].pc = "saving"
  /\ file' = FileOf(<<>>)
  /\ w' = [w EXCEPT ![p].pc = "opened"]
  /\ UNCHANGED <<mode, last, nreq, base, cnt>>

\* save_test_ids: json.dump reaches the file when the with-block closes it;
\* the handler then returns
WriteAndReturn(p) ==
  /\ w[p].pc = "opened"
  /\ file' = FileOf(WriteAtStart(file.text, save_test_ids(w[p].ids).text))
  /\ w' = [w EXCEPT ![p].pc = "idle",
                    ![p].wrote = TRUE,
                    ![p].resp = IdsResp(IF w[p].op = "add" THEN "added" ELSE "deleted",
                                        w[p].ids)]
  /\ UNCHANGED <<mode, last, nreq, base, cnt>>

NextConc == \E p \in Workers : Request(p) \/ OpenForWrite(p) \/ WriteAndReturn(p)

SpecConc == InitConc /\ [][NextConc]_vars

(* ======================== properties of the code ====================== *)
PreList == load_test_ids(last.pre)
NowList == load_test_ids(file)
LastPid == PyStr(last.pid)
Occurs(x, items) == \E n \in 1..Len(items) : items[n] = x
Occurrences(x, items) == Cardinality({ n \in 1..Len(items) : items[n] = x })

\* the success payload that carries exactly the given entries, in order
OverridePayload(items, r) ==
  /\ r.code = 200
  /\ r.keys = {"status", "count", "data"}
  /\ r.status = "success"
  /\ r.count = Len(items)
  /\ Len(r.data) = Len(items)
  /\ \A n \in 1..Len(items) : r.data[n] = PyDict(<<USER_KEY>>, <<items[n]>>)

IdsPayload(status, ids, r) ==
  /\ r.code = 200
  /\ r.keys = {"status", "ids"}
  /\ r.status = status
  /\ r.ids = ids
  /\ r.exc = ""

OverrideHeld == IsList(PreList) /\ Len(PreList.items) >= 1
OverrideEmpty == PreList = EmptyList

(* ---- C1 ---- *)
\* C1 as stated: whenever the persisted override list holds at least one
\* entry, GET /top-users returns exactly those entries, in order, each
\* wrapped as {"user_pseudo_id": entry}, with count = number of entries, and
\* the warehouse is not queried.
C1_OverrideAlwaysReturned ==
  (last.op = "top" /\ OverrideHeld)
    => (OverridePayload(PreList.items, last.resp) /\ ~last.queried)

\* C1 amended: the same, in production mode; in testing mode GET /top-users
\* returns the two built-in test ids whatever the file holds, and never
\* queries the warehouse.
C1_OverrideReturnedInProduction ==
  /\ (last.op = "top" /\ mode = "production" /\ OverrideHeld)
       => (OverridePayload(PreList.items, last.resp) /\ ~last.queried)
  /\ (last.op = "top" /\ mode = "testing")
       => (OverridePayload(TEST_PSEUDO_IDS, last.resp) /\ ~last.queried)

C1_Witness ==
  /\ last.op = "top"
  /\ mode = "production"
  /\ IsList(PreList)
  /\ Len(PreList.items) >= 2
  /\ PreList.items[1] # PreList.items[2]
  /\ last.resp.count = Len(PreList.items)
  /\ ~last.queried

(* ---- C2 ---- *)
\* C2: add is idempotent.  For a list L and a pid already in L, POST
\* /test-ids returns status "added" with ids = L and the persisted list is
\* still L; and adding the same pid once more after any add changes
\* neither the persisted list nor the answer.
C2_AddIdempotent ==
  (last.op = "add" /\ IsList(PreList))
    => /\ Occurs(LastPid, PreList.items)
            => (IdsPayload("added", PreList, last.resp) /\ NowList = PreList)
       /\ load_test_ids(add_test_id(file, last.pid).file) = NowList
       /\ add_test_id(file, last.pid).resp = last.resp

C2_Witness ==
  /\ last.op = "add"
  /\ IsList(PreList)
  /\ Len(PreList.items) >= 2
  /\ Occurs(LastPid, PreList.items)
  /\ last.resp.status = "added"
  /\ NowList = PreList

(* ---- C3 ---- *)
\* C3: for a list L and a pid not in L, DELETE /test-ids/{pid} leaves the
\* list unchanged (the list loaded afterwards equals the list loaded before)
\* and returns status "deleted" with ids = L.
C3_DeleteAbsentKeepsList ==
  (last.op = "delete" /\ IsList(PreList) /\ ~Occurs(LastPid, PreList.items))
    => (NowList = PreList /\ IdsPayload("deleted", PreList, last.resp))

C3_Witness ==
  /\ last.op = "delete"
  /\ IsList(PreList)
  /\ Len(PreList.items) >= 1
  /\ ~Occurs(LastPid, PreList.items)
  /\ last.resp.status = "deleted"
  /\ file # last.pre

(* ---- C4 ---- *)
\* the document save_test_ids writes for a list of id strings
HoldsSavedList(f) == \E l \in IdLists : f = FileOf(CanonText(l))

\* C4 as stated: for every state of the backing file (missing, unreadable,
\* valid), save(load()) leaves the file content exactly as it was.
C4_RoundTripAlwaysNoOp ==
  last.op = "saveload" => file = last.pre

\* C4 amended: save(load()) leaves the content as it was when the file holds
\* the document save writes for a list of strings; a missing file is created
\* holding {"ids": []}.
C4_RoundTripOnSavedDocument ==
  /\ (last.op = "saveload" /\ HoldsSavedList(last.pre)) => file = last.pre
  /\ (last.op = "saveload" /\ ~last.pre.exists)
       => file = FileOf(<<"{">> \o Quoted(IDS_KEY) \o <<":", " ", "[", "]", "}">>)

C4_Witness ==
  /\ last.op = "saveload"
  /\ HoldsSavedList(last.pre)
  /\ Len(PreList.items) >= 2
  /\ file = last.pre

(* ---- C5 ---- *)
\* C5: when the override list is empty and the warehouse client returns
\* zero rows, GET /top-users answers 404 with a payload without a data key.
C5_EmptyResultIs404 ==
  (last.op = "top" /\ OverrideEmpty /\ last.queried
     /\ ~last.wh.raises /\ Len(last.wh.rows) = 0)
    => /\ last.resp.code = 404
       /\ "data" \notin last.resp.keys
       /\ last.resp.status # "success"

C5_Witness ==
  /\ last.op = "top"
  /\ OverrideEmpty
  /\ last.queried
  /\ ~last.wh.raises
  /\ Len(last.wh.rows) = 0
  /\ last.resp.code = 404

(* ---- C6 ---- *)
\* missing, unreadable, not an object, or an object whose "ids" is absent
\* or not a list
ParsedIds(v) == DictGetIds(v, KeyIndex(v.keys, IDS_KEY, 1))
Malformed(f) ==
  \/ ~f.exists
  \/ ~json_load(f.text).ok
  \/ json_load(f.text).val.t # "dict"
  \/ KeyIndex(json_load(f.text).val.keys, IDS_KEY, 1) = 0
  \/ ~IsList(ParsedIds(json_load(f.text).val))

\* C6: load() always yields a sequence, the empty one when the file is
\* missing, unreadable or malformed (not an object, "ids" absent or not a
\* list), so no handler that calls it ends in an error caused by the file.
\* Stated of the request last served and the file it found.
C6_LoadNeverFails ==
  (mode = "production" /\ last.op \in {"get", "add", "delete", "top"})
    => /\ IsList(PreList)
       /\ Malformed(last.pre) => PreList = EmptyList
       /\ last.resp.exc = ""

(* ---- C7 ---- *)
ErrorPayload(msg, r) ==
  /\ r.code = 500
  /\ r.keys = {"status", "message"}
  /\ r.status = "error"
  /\ r.message = msg

NoDataPayload(r) ==
  /\ r.code = 404
  /\ "data" \notin r.keys
  /\ r.status # "success"

\* override list, else query rows, else 404, else 500
PriorityOutcome ==
  IF OverrideHeld
    THEN OverridePayload(PreList.items, last.resp) /\ ~last.queried
  ELSE IF last.wh.raises
    THEN ErrorPayload(last.wh.msg, last.resp) /\ last.queried
  ELSE IF Len(last.wh.rows) = 0
    THEN NoDataPayload(last.resp) /\ last.queried
  ELSE OverridePayload(last.wh.rows, last.resp) /\ last.queried

\* C7 as stated: with an empty override list and a raising warehouse client
\* the answer is 500 / status "error" / the exception message, and the
\* outcome of GET /top-users is always one of override list, query rows,
\* 404, 500, chosen in that priority order.
C7_OutcomeAlwaysByPriority ==
  (last.op = "top" /\ IsList(PreList)) => PriorityOutcome

\* C7 amended: that holds in production mode; in testing mode the outcome
\* is always the built-in list and the warehouse is never queried.  In
\* either mode a warehouse call that raises ends in the 500 error payload.
C7_OutcomeByPriorityInProduction ==
  /\ (last.op = "top" /\ mode = "production" /\ IsList(PreList)) => PriorityOutcome
  /\ (last.op = "top" /\ mode = "testing")
       => (OverridePayload(TEST_PSEUDO_IDS, last.resp) /\ ~last.queried)
  /\ (last.op = "top" /\ last.queried /\ last.wh.raises)
       => ErrorPayload(last.wh.msg, last.resp)

C7_Witness ==
  /\ last.op = "top"
  /\ mode = "production"
  /\ OverrideEmpty
  /\ last.queried
  /\ last.wh.raises
  /\ last.resp.code = 500
  /\ last.resp.message = last.wh.msg

(* ---- C10 ---- *)
\* C10: for a list L (duplicates allowed) and a pid in L, DELETE
\* /test-ids/{pid} removes the first match only: the returned and persisted
\* list is L without its first occurrence of pid, the other entries in
\* their order, one entry shorter.
C10_DeleteRemovesFirstMatch ==
  (last.op = "delete" /\ IsList(PreList) /\ Occurs(LastPid, PreList.items))
    => /\ last.resp.code = 200
       /\ last.resp.status = "deleted"
       /\ IsList(last.resp.ids)
       /\ NowList = last.resp.ids
       /\ Len(NowList.items) = Len(PreList.items) - 1
       /\ \E i \in 1..Len(PreList.items) :
            /\ PreList.items[i] = LastPid
            /\ \A j \in 1..(i - 1) : PreList.items[j] # LastPid
            /\ \A k \in 1..Len(NowList.items) :
                 NowList.items[k] = PreList.items[IF k < i THEN k ELSE k + 1]

C10_Witness ==
  /\ last.op = "delete"
  /\ IsList(PreList)
  /\ Occurrences(LastPid, PreList.items) = 2
  /\ PreList.items[1] # LastPid
  /\ Occurrences(LastPid, NowList.items) = 1
  /\ Len(NowList.items) = Len(PreList.items) - 1

(* ---- C8, C9: overlapping requests ---- *)
\* what add and delete are to do to a list, stated on its entries
ExpectedAdd(items, x) == IF Occurs(x, items) THEN items ELSE items \o <<x>>
ExpectedDelete(items, x) ==
  IF ~Occurs(x, items) THEN items
  ELSE LET i == CHOOSE i \in 1..Len(items) :
                  items[i] = x /\ \A j \in 1..(i - 1) : items[j] # x
       IN [k \in 1..(Len(items) - 1) |-> items[IF k < i THEN k ELSE k + 1]]
Expected(p, items) ==
  IF w[p].op = "add" THEN ExpectedAdd(items, PyStr(w[p].pid))
  ELSE ExpectedDelete(items, PyStr(w[p].pid))

\* two requests, one per worker, overlapped and are both over
PairDone == \A p \in Workers : w[p].pc = "idle" /\ cnt[p] = 1
BaseItems == load_test_ids(base).items
SerialResults ==
  { Expected(2, Expected(1, BaseItems)), Expected(1, Expected(2, BaseItems)) }
Answered(p) ==
  IdsPayload(IF w[p].op = "add" THEN "added" ELSE "deleted", w[p].resp.ids, w[p].resp)

\* C8: add and delete are load-then-save without locking.  Two overlapping
\* requests both answer success, and the list left in the file is a serial
\* result, or else carries the update of one request alone (applied to the
\* list the pair started from, or to the empty list read from a file the
\* other request had just truncated), or is empty (a torn write): updates
\* are lost, never merged.
C8_LastWriterWins ==
  PairDone
    => /\ \A p \in Workers : Answered(p)
       /\ IsList(NowList)
       /\ \/ NowList.items \in SerialResults
          \/ \E p \in Workers : NowList.items = Expected(p, BaseItems)
          \/ \E p \in Workers : NowList.items = Expected(p, <<>>)
          \/ NowList.items = <<>>

\* add(A) and add(B), A # B, both answered "added" and both wrote, yet the
\* file holds one of the two ids only: neither serial order gives that
C8_Witness ==
  /\ PairDone
  /\ \A p \in Workers : w[p].op = "add" /\ w[p].wrote /\ Answered(p)
  /\ w[1].pid # w[2].pid
  /\ ~Occurs(PyStr(w[1].pid), BaseItems)
  /\ ~Occurs(PyStr(w[2].pid), BaseItems)
  /\ NowList.items \notin SerialResults
  /\ \E p \in Workers : NowList.items = Expected(p, BaseItems)

\* C9: starting from a missing file or a list without duplicates, the
\* persisted list has no duplicate entry in any reachable state, whatever the
\* requests and however their load and save steps interleave.
C9_NoDuplicates ==
  IsList(NowList) /\ NoDuplicates(NowList.items)

\* two overlapping adds of the same new pid both wrote; the file holds it once
C9_Witness ==
  /\ PairDone
  /\ \A p \in Workers : w[p].op = "add" /\ w[p].wrote
  /\ w[1].pid = w[2].pid
  /\ ~Occurs(PyStr(w[1].pid), BaseItems)
  /\ Occurrences(PyStr(w[1].pid), NowList.items) = 1
  /\ Len(NowList.items) >= 2

====
